---- MODULE Spec2Model ----
(***************************************************************************)
(* A model of the public profile page of pdims: the UserProfile component  *)
(* (src/src/pages/UserProfile.tsx), its loader, its URL formatter, its     *)
(* theme registry, and the route table of the application shell            *)
(* (src/src/App.tsx).                                                      *)
(*                                                                         *)
(* JavaScript values are modelled as follows.  A string is a TLA+ string.  *)
(* A field that is null or undefined in a stored row is a field that is    *)
(* not in the DOMAIN of the record.  A nullable React state (profile,      *)
(* settings, error) is a tagged record, Null or Some(v).                   *)
(***************************************************************************)
EXTENDS Integers, Sequences, FiniteSets, TLC

VARIABLES
    username,     \* useParams().username: Null or Some(string)
    profile,      \* useState<Profile | null>
    settings,     \* useState<ProfileSettings | null>
    loading,      \* useState(true)
    error,        \* useState<string | null>
    mounted,      \* the component instance is mounted
    loads,        \* the loadProfile invocations of this instance, in start order
    darkClass,    \* document.documentElement.classList contains "dark"
    fontCurrent,  \* document.documentElement.style "--font-current": Null or Some(value)
    navigated,    \* the last target handed to navigate(): Null or Some(path)
    uuidNext,     \* the next value crypto.randomUUID() hands out
    fpc,          \* whether formatUrl has been applied / the success view rendered
    arg,          \* the string handed to formatUrl, or the visit to the route table
    res           \* what formatUrl returned, or what rendered

vars == <<username, profile, settings, loading, error, mounted, loads,
          darkClass, fontCurrent, navigated, uuidNext, fpc, arg, res>>

pageVars == <<username, profile, settings, loading, error, mounted, loads,
              darkClass, fontCurrent, navigated, uuidNext>>

harnessVars == <<fpc, arg, res>>

-----------------------------------------------------------------------------
(* Bounds of the model *)

\* loadProfile invocations one component instance makes (mount + username changes)
MaxLoads == 2
\* characters appended after the scheme-like head of a URL input
MaxTail == 2
\* entries of a stored links array
MaxLinks == 2
\* segments of a visited path
MaxSegments == 2

-----------------------------------------------------------------------------
(* JavaScript values *)

Null == [t |-> "null"]
Some(v) == [t |-> "some", v |-> v]
IsNull(x) == x.t = "null"

\* a record with no fields: every column of the row is null
EmptyRec == [f \in {} |-> ""]

\* row[f] is present and truthy, for a string-valued field (x || default)
TruthyStr(row, f) == f \in DOMAIN row /\ row[f] # ""
\* row[f] is present and truthy, for a boolean-valued field
TruthyBool(row, f) == f \in DOMAIN row /\ row[f] = TRUE

\* String.prototype.startsWith
StartsWith(s, p) == Len(s) >= Len(p) /\ SubSeq(s, 1, Len(p)) = p

-----------------------------------------------------------------------------
(* The URL formatter, UserProfile.tsx 79-94 *)

formatUrlNoProtocolRelative(url) ==
    IF url = "" THEN ""
    ELSE IF StartsWith(url, "http://") \/ StartsWith(url, "https://") THEN url
    ELSE "https://" \o url

formatUrl(url) ==
    IF url = "" THEN ""
    ELSE IF StartsWith(url, "http://") \/ StartsWith(url, "https://") THEN url
    ELSE IF StartsWith(url, "//") THEN "https:" \o url
    ELSE "https://" \o url

-----------------------------------------------------------------------------
(* The theme registry, UserProfile.tsx 59-76 *)

THEMES ==
    [ elegant |-> [id |-> "elegant",
                   background |-> "bg-gradient-to-b from-purple-50 to-purple-100 dark:from-purple-950 dark:to-slate-950"],
      nature  |-> [id |-> "nature",
                   background |-> "bg-gradient-to-b from-green-50 to-emerald-100 dark:from-green-950 dark:to-slate-950"],
      ocean   |-> [id |-> "ocean",
                   background |-> "bg-gradient-to-b from-blue-50 to-cyan-100 dark:from-blue-950 dark:to-slate-950"],
      sunset  |-> [id |-> "sunset",
                   background |-> "bg-gradient-to-b from-orange-50 to-red-100 dark:from-orange-950 dark:to-slate-950"] ]

\* THEMES is an object literal: a lookup by key also finds what the literal
\* inherits from Object.prototype.
ObjectPrototypeKeys ==
    {"constructor", "toString", "toLocaleString", "valueOf", "hasOwnProperty",
     "isPrototypeOf", "propertyIsEnumerable", "__proto__"}

\* THEMES[key]: an own entry, an inherited member (truthy, no background), or undefined
ThemeLookup(key) ==
    IF key \in DOMAIN THEMES THEN [t |-> "theme", v |-> THEMES[key]]
    ELSE IF key \in ObjectPrototypeKeys THEN [t |-> "inherited"]
    ELSE Null

-----------------------------------------------------------------------------
(* Rendering of the success view, UserProfile.tsx 284-305 *)

\* line 284: THEMES[settings?.theme_id || 'elegant'] || THEMES.elegant
ResolveTheme(s) ==
    LET first == ThemeLookup(IF s.theme_id # "" THEN s.theme_id ELSE "elegant")
    IN  IF IsNull(first) THEN [t |-> "theme", v |-> THEMES.elegant] ELSE first

\* theme.background inside the template literal of line 301
ThemeBackground(theme) ==
    IF theme.t = "theme" THEN theme.v.background ELSE "undefined"

\* line 286: settings.background_style && settings.background_style.id !== "none"
\*           && settings.background_style.url
hasBackgroundImage(s) ==
    /\ "background_style" \in DOMAIN s
    /\ s.background_style.t = "obj"
    /\ ("id" \notin DOMAIN s.background_style.o \/ s.background_style.o.id # "none")
    /\ "url" \in DOMAIN s.background_style.o
    /\ s.background_style.o.url # ""

\* what lines 288-305 put on the page for the settings s
RenderView(s) ==
    LET has == hasBackgroundImage(s)
    IN  [ backgroundImage |-> IF has THEN Some("url(" \o s.background_style.o.url \o ")")
                              ELSE Null,
          backgroundClass |-> IF ~has THEN ThemeBackground(ResolveTheme(s)) ELSE "",
          overlayClass    |-> IF has THEN "bg-black/40 backdrop-blur-sm" ELSE "",
          textShadowClass |-> IF has THEN "text-shadow" ELSE "" ]

-----------------------------------------------------------------------------
(* Normalisation of the stored settings row, UserProfile.tsx 194-224 *)

\* LAYOUT_TYPES.LINKS of @/constants/layouts
LAYOUT_TYPES_LINKS == "links"

\* crypto.randomUUID(): the n-th identifier handed out
randomUUID(n) == "uuid-" \o ToString(n)

\* JSON.parse on the documents the model stores in background_style
JSONparse(doc) ==
    CASE doc = "{\"id\":\"none\",\"url\":\"\"}" ->
            [ok |-> TRUE, value |-> [t |-> "obj", o |-> [id |-> "none", url |-> ""]]]
      [] doc = "{\"id\":\"custom\",\"url\":\"https://img\"}" ->
            [ok |-> TRUE, value |-> [t |-> "obj", o |-> [id |-> "custom", url |-> "https://img"]]]
      [] doc = "{\"id\":\"custom\",\"url\":\"\"}" ->
            [ok |-> TRUE, value |-> [t |-> "obj", o |-> [id |-> "custom", url |-> ""]]]
      [] doc = "{\"id\":\"none\",\"url\":\"https://img\"}" ->
            [ok |-> TRUE, value |-> [t |-> "obj", o |-> [id |-> "none", url |-> "https://img"]]]
      [] doc = "{\"url\":\"https://img\"}" ->
            [ok |-> TRUE, value |-> [t |-> "obj", o |-> [url |-> "https://img"]]]
      [] doc = "null" -> [ok |-> TRUE, value |-> Null]
      [] doc = "5" -> [ok |-> TRUE, value |-> [t |-> "number"]]
      [] OTHER -> [ok |-> FALSE]

\* lines 198-205: one entry of settings.links.map; n is the next uuid
processLink(l, n) ==
    [ id        |-> IF TruthyStr(l, "id") THEN l.id ELSE randomUUID(n),
      title     |-> IF TruthyStr(l, "title") THEN l.title ELSE "",
      url       |-> formatUrl(IF TruthyStr(l, "url") THEN l.url ELSE ""),
      icon      |-> IF TruthyStr(l, "icon") THEN l.icon ELSE "link",
      display   |-> IF TruthyStr(l, "display") THEN l.display ELSE "both",
      photo_url |-> IF TruthyStr(l, "photo_url") THEN l.photo_url ELSE "" ]

\* lines 194-207: processedLinks, and the next uuid after the map
RECURSIVE mapLinks(_, _)
mapLinks(ls, n) ==
    IF ls = <<>> THEN [links |-> <<>>, next |-> n]
    ELSE LET l    == Head(ls)
             used == IF TruthyStr(l, "id") THEN 0 ELSE 1
             rest == mapLinks(Tail(ls), n + used)
         IN  [links |-> <<processLink(l, n)>> \o rest.links, next |-> rest.next]

processedLinks(row, n) ==
    IF "links" \in DOMAIN row /\ row.links.t = "array"
    THEN mapLinks(row.links.v, n)
    ELSE [links |-> <<>>, next |-> n]

\* lines 218-224: the parsed background_style, when there is one
backgroundStyleFailingLoad(row) ==
    IF TruthyStr(row, "background_style")
    THEN [background_style |-> IF JSONparse(row.background_style).ok
                               THEN JSONparse(row.background_style).value
                               ELSE [t |-> "obj", o |-> [id |-> "error", url |-> row.background_style]]]
    ELSE EmptyRec

backgroundStyleOf(row) ==
    IF TruthyStr(row, "background_style") /\ JSONparse(row.background_style).ok
    THEN [background_style |-> JSONparse(row.background_style).value]
    ELSE EmptyRec

\* lines 209-224: typedSettings as handed to setSettings
typedSettingsNoDefaults(row, n) ==
    [ links        |-> processedLinks(row, n).links,
      theme_id     |-> IF TruthyStr(row, "theme_id") THEN row.theme_id ELSE "",
      is_dark_mode |-> TruthyBool(row, "is_dark_mode"),
      font_style   |-> IF TruthyStr(row, "font_style") THEN row.font_style ELSE "",
      layout_type  |-> IF TruthyStr(row, "layout_type") THEN row.layout_type ELSE "" ]
    @@ (IF "favicon_url" \in DOMAIN row THEN [favicon_url |-> row.favicon_url] ELSE EmptyRec)
    @@ backgroundStyleOf(row)

typedSettings(row, n) ==
    [ links        |-> processedLinks(row, n).links,
      theme_id     |-> IF TruthyStr(row, "theme_id") THEN row.theme_id ELSE "elegant",
      is_dark_mode |-> TruthyBool(row, "is_dark_mode"),
      font_style   |-> IF TruthyStr(row, "font_style") THEN row.font_style ELSE "sans",
      layout_type  |-> IF TruthyStr(row, "layout_type") THEN row.layout_type
                       ELSE LAYOUT_TYPES_LINKS ]
    @@ (IF "favicon_url" \in DOMAIN row THEN [favicon_url |-> row.favicon_url] ELSE EmptyRec)
    @@ backgroundStyleOf(row)

\* line 234: the value given to --font-current
fontProperty(s) ==
    "var(--font-" \o (IF s.font_style # "" THEN s.font_style ELSE "sans") \o ")"

-----------------------------------------------------------------------------
(* The route table, App.tsx 66-83.  A path is the sequence of its segments. *)

Static(v) == [k |-> "static", v |-> v]
Param(v) == [k |-> "param", v |-> v]
Splat == [k |-> "splat"]

RouteTableSettingsUnguarded ==
    << [path |-> <<>>,                                     element |-> "Landing",           guarded |-> FALSE],
       [path |-> <<Static("auth")>>,                       element |-> "Auth",              guarded |-> FALSE],
       [path |-> <<Static("how-to-use")>>,                 element |-> "HowToUse",          guarded |-> FALSE],
       [path |-> <<Param("username")>>,                    element |-> "UserProfile",       guarded |-> FALSE],
       [path |-> <<Static("settings")>>,                   element |-> "SettingsPage",      guarded |-> FALSE],
       [path |-> <<Static("dashboard")>>,                  element |-> "Index",             guarded |-> TRUE],
       [path |-> <<Static("edit-profile"), Param("username")>>, element |-> "ProfileEditor", guarded |-> TRUE],
       [path |-> <<Static("appearance")>>,                 element |-> "ProfileAppearance", guarded |-> TRUE],
       [path |-> <<Static("edit-links")>>,                 element |-> "LinkEditorPage",    guarded |-> TRUE],
       [path |-> <<Splat>>,                                element |-> "NotFound",          guarded |-> FALSE] >>

RouteTable ==
    << [path |-> <<>>,                                     element |-> "Landing",           guarded |-> FALSE],
       [path |-> <<Static("auth")>>,                       element |-> "Auth",              guarded |-> FALSE],
       [path |-> <<Static("how-to-use")>>,                 element |-> "HowToUse",          guarded |-> FALSE],
       [path |-> <<Param("username")>>,                    element |-> "UserProfile",       guarded |-> FALSE],
       [path |-> <<Static("dashboard")>>,                  element |-> "Index",             guarded |-> TRUE],
       [path |-> <<Static("edit-profile"), Param("username")>>, element |-> "ProfileEditor", guarded |-> TRUE],
       [path |-> <<Static("appearance")>>,                 element |-> "ProfileAppearance", guarded |-> TRUE],
       [path |-> <<Static("edit-links")>>,                 element |-> "LinkEditorPage",    guarded |-> TRUE],
       [path |-> <<Static("settings")>>,                   element |-> "SettingsPage",      guarded |-> TRUE],
       [path |-> <<Splat>>,                                element |-> "NotFound",          guarded |-> FALSE] >>

\* the router's rank of a route path: a static segment outranks a parameter,
\* a parameter outranks the splat
RECURSIVE SegmentScore(_)
SegmentScore(p) ==
    IF p = <<>> THEN 0
    ELSE (CASE Head(p).k = "static" -> 10
            [] Head(p).k = "param"  -> 3
            [] OTHER                -> 0) + SegmentScore(Tail(p))

RouteScore(p) ==
    IF \E i \in 1..Len(p) : p[i].k = "splat"
    THEN Len(p) - 2 + SegmentScore(p)
    ELSE Len(p) + 2 + SegmentScore(p)

\* String.prototype.toLowerCase on the segments the model visits
LowerCase(seg) ==
    CASE seg = "Dashboard" -> "dashboard"
      [] seg = "AUTH"      -> "auth"
      [] OTHER             -> seg

\* the route path p matches the location loc (a sequence of non-empty segments);
\* the routes are not caseSensitive, so a static segment matches in any case
RECURSIVE RouteMatches(_, _)
RouteMatches(p, loc) ==
    IF p = <<>> THEN loc = <<>>
    ELSE IF Head(p).k = "splat" THEN TRUE
    ELSE /\ loc # <<>>
         /\ (Head(p).k = "static" => Head(p).v = LowerCase(Head(loc)))
         /\ RouteMatches(Tail(p), Tail(loc))

\* <Routes>: the best-ranked route that matches, the earlier one on a tie
MatchRoute(loc) ==
    LET ms == {i \in 1..Len(RouteTable) : RouteMatches(RouteTable[i].path, loc)}
        best == CHOOSE i \in ms : \A j \in ms :
                    \/ RouteScore(RouteTable[i].path) > RouteScore(RouteTable[j].path)
                    \/ (RouteScore(RouteTable[i].path) = RouteScore(RouteTable[j].path) /\ i <= j)
    IN  RouteTable[best]

-----------------------------------------------------------------------------
(* What the backend lookups can answer, UserProfile.tsx 137-141 and 169-173 *)

Usernames == {"alice", "404"}

\* { data: null, error }: a query error; instanceOfError is "error instanceof Error"
QueryError(msg, isErr) == [t |-> "error", message |-> msg, instanceOfError |-> isErr]
\* { data: null, error: null }: maybeSingle found no row
NoRow == [t |-> "none"]
\* { data: row, error: null }
Row(r) == [t |-> "row", data |-> r]
\* the awaited promise rejects
Thrown(msg) == [t |-> "throw", message |-> msg]

\* the row of table profiles whose username is u
ProfileRow(u) == [id |-> "id-" \o u, username |-> u, full_name |-> "Name of " \o u]

ProfileOutcomes(u) ==
    { QueryError("connection reset", TRUE), QueryError("connection reset", FALSE),
      NoRow, Thrown("Failed to fetch"), Row(ProfileRow(u)) }

\* the stored settings rows of the page model (the columns besides id)
PageSettingsRows ==
    { EmptyRec,
      [is_dark_mode |-> TRUE, font_style |-> "serif", background_style |-> "not json",
       links |-> [t |-> "array", v |-> <<[url |-> "example.com"]>>]],
      [theme_id |-> "ocean", is_dark_mode |-> FALSE,
       background_style |-> "{\"id\":\"custom\",\"url\":\"https://img\"}",
       links |-> [t |-> "array", v |-> <<>>]] }

\* the answers to .from('profile_settings').eq('id', key)
SettingsOutcomes(key) ==
    { QueryError("connection reset", TRUE), QueryError("connection reset", FALSE),
      NoRow, Thrown("Failed to fetch") }
    \cup { Row([id |-> key] @@ r) : r \in PageSettingsRows }

-----------------------------------------------------------------------------
(* The page, UserProfile.tsx 96-282 *)

\* the three returns of the component, lines 256-299
PageState ==
    IF loading THEN "loading"
    ELSE IF (~IsNull(error) /\ error.v # "") \/ IsNull(profile) \/ IsNull(settings)
         THEN "error"
         ELSE "success"

Toast(title, description) ==
    [title |-> title, description |-> description, variant |-> "destructive"]

\* a loadProfile invocation that has just been called
NewLoad(u) ==
    [ username       |-> u,
      pc             |-> "start",
      profileIssued  |-> 0,
      settingsIssued |-> 0,
      settingsKey    |-> Null,
      profileResult  |-> Null,
      settingsResult |-> Null,
      errorSet       |-> Null,
      toasts         |-> <<>>,
      navigated      |-> Null,
      committed      |-> Null ]

\* lines 250-253: the cleanup the effect returns
Cleanup ==
    /\ darkClass' = FALSE
    /\ fontCurrent' = Null

\* lines 125-141: loadProfile up to its first await, for the username u
BeginLoad(u) ==
    IF IsNull(u) \/ u.v = ""
    THEN /\ loads' = Append(loads, [NewLoad(u) EXCEPT
                        !.pc = "done",
                        !.errorSet = Some("Username is required"),
                        !.navigated = Some(<<"404">>)])
         /\ error' = Some("Username is required")
         /\ navigated' = Some(<<"404">>)
         /\ loading' = FALSE
    ELSE /\ loads' = Append(loads, [NewLoad(u) EXCEPT
                        !.pc = "awaitProfile",
                        !.profileIssued = 1])
         /\ error' = Null
         /\ loading' = TRUE
         /\ UNCHANGED navigated

\* line 122 and 248: the effect runs after the first render
MountEffect ==
    /\ mounted
    /\ loads = <<>>
    /\ BeginLoad(username)
    /\ UNCHANGED <<username, profile, settings, mounted, darkClass, fontCurrent, uuidNext>>
    /\ UNCHANGED harnessVars

\* line 254: the username parameter changes; the cleanup runs and the effect re-runs
ChangeUsername(u) ==
    /\ mounted
    /\ loads # <<>>
    /\ Len(loads) < MaxLoads
    /\ username # Some(u)
    /\ username' = Some(u)
    /\ Cleanup
    /\ BeginLoad(Some(u))
    /\ UNCHANGED <<profile, settings, mounted, uuidNext>>
    /\ UNCHANGED harnessVars

\* the view is torn down: the cleanup of lines 250-253 runs
Unmount ==
    /\ mounted
    /\ mounted' = FALSE
    /\ Cleanup
    /\ UNCHANGED <<username, profile, settings, loading, error, loads, navigated, uuidNext>>
    /\ UNCHANGED harnessVars

\* line 274: the "Return Home" button of the error view
ClickReturnHome ==
    /\ mounted
    /\ PageState = "error"
    /\ navigated' = Some(<<>>)
    /\ UNCHANGED <<username, profile, settings, loading, error, mounted, loads,
                   darkClass, fontCurrent, uuidNext>>
    /\ UNCHANGED harnessVars

\* a state setter of an unmounted component has no effect
SetState(cur, new) == IF mounted THEN new ELSE cur

\* lines 148-152: the toast of a failed profile lookup
ProfileErrorToast(out) ==
    Toast("Error", "Failed to load profile: " \o
                   (IF out.instanceOfError THEN out.message ELSE "Unknown error"))

\* lines 180-184: the toast of a failed settings lookup
SettingsErrorToast(out) ==
    Toast("Error", "Failed to load profile settings")

\* lines 235-242: the catch block
CatchToast == Toast("Error", "Failed to load digital identity")

\* lines 145-167: what follows the profile lookup: "catch", "error", "notfound" or
\* "settings" (the settings lookup is issued)
AfterProfileAlwaysSettings(out) ==
    CASE out.t = "throw" -> "catch"
      [] out.t = "error" -> "error"
      [] OTHER           -> "settings"

AfterProfile(out) ==
    CASE out.t = "throw" -> "catch"
      [] out.t = "error" -> "error"
      [] out.t = "none"  -> "notfound"
      [] OTHER           -> "settings"

\* lines 137-167 and 235-245: the profile lookup of invocation i answers out
ProfileResolved(i, out) ==
    LET l    == loads[i]
        next == AfterProfile(out)
    IN
    /\ l.pc = "awaitProfile"
    /\ CASE next = "catch" ->
              /\ loads' = [loads EXCEPT ![i] = [l EXCEPT
                               !.pc = "done", !.profileResult = out,
                               !.errorSet = Some(out.message),
                               !.toasts = Append(@, CatchToast)]]
              /\ error' = SetState(error, Some(out.message))
              /\ loading' = SetState(loading, FALSE)
              /\ UNCHANGED profile
         [] next = "error" ->
              /\ loads' = [loads EXCEPT ![i] = [l EXCEPT
                               !.pc = "done", !.profileResult = out,
                               !.errorSet = Some("Failed to load profile"),
                               !.toasts = Append(@, ProfileErrorToast(out))]]
              /\ error' = SetState(error, Some("Failed to load profile"))
              /\ loading' = SetState(loading, FALSE)
              /\ UNCHANGED profile
         [] next = "notfound" ->
              /\ loads' = [loads EXCEPT ![i] = [l EXCEPT
                               !.pc = "done", !.profileResult = out,
                               !.errorSet = Some("Profile not found"),
                               !.toasts = Append(@, Toast("Not Found",
                                              "This digital identity does not exist"))]]
              /\ error' = SetState(error, Some("Profile not found"))
              /\ loading' = SetState(loading, FALSE)
              /\ UNCHANGED profile
         [] OTHER ->
              /\ loads' = [loads EXCEPT ![i] = [l EXCEPT
                               !.pc = "awaitSettings", !.profileResult = out,
                               !.settingsIssued = @ + 1,
                               !.settingsKey = IF out.t = "row" THEN Some(out.data.id)
                                               ELSE Null]]
              /\ profile' = SetState(profile, IF out.t = "row" THEN Some(out.data) ELSE Null)
              /\ UNCHANGED <<error, loading>>
    /\ UNCHANGED <<username, settings, mounted, darkClass, fontCurrent, navigated, uuidNext>>
    /\ UNCHANGED harnessVars

\* lines 177-226: what follows the settings lookup: "catch", "error", "missing" or "ok"
AfterSettingsMissingAsError(out) ==
    CASE out.t = "throw" -> "catch"
      [] out.t = "error" -> "error"
      [] out.t = "none"  -> "error"
      [] OTHER           -> "ok"

AfterSettings(out) ==
    CASE out.t = "throw" -> "catch"
      [] out.t = "error" -> "error"
      [] out.t = "none"  -> "missing"
      [] OTHER           -> "ok"

\* lines 228-234 write to the document whether or not the view is still mounted
DocumentEffects(row, typed) ==
    /\ darkClass' = TruthyBool(row, "is_dark_mode")
    /\ fontCurrent' = Some(fontProperty(typed))

\* lines 169-245: the settings lookup of invocation i answers out
SettingsResolved(i, out) ==
    LET l    == loads[i]
        next == AfterSettings(out)
    IN
    /\ l.pc = "awaitSettings"
    /\ CASE next = "catch" ->
              /\ loads' = [loads EXCEPT ![i] = [l EXCEPT
                               !.pc = "done", !.settingsResult = out,
                               !.errorSet = Some(out.message),
                               !.toasts = Append(@, CatchToast)]]
              /\ error' = SetState(error, Some(out.message))
              /\ UNCHANGED <<settings, darkClass, fontCurrent, uuidNext>>
         [] next = "error" ->
              /\ loads' = [loads EXCEPT ![i] = [l EXCEPT
                               !.pc = "done", !.settingsResult = out,
                               !.errorSet = Some("Error loading profile settings"),
                               !.toasts = Append(@, SettingsErrorToast(out))]]
              /\ error' = SetState(error, Some("Error loading profile settings"))
              /\ UNCHANGED <<settings, darkClass, fontCurrent, uuidNext>>
         [] next = "missing" ->
              /\ loads' = [loads EXCEPT ![i] = [l EXCEPT
                               !.pc = "done", !.settingsResult = out,
                               !.errorSet = Some("Profile settings not found")]]
              /\ error' = SetState(error, Some("Profile settings not found"))
              /\ UNCHANGED <<settings, darkClass, fontCurrent, uuidNext>>
         [] OTHER ->
              LET typed == typedSettings(out.data, uuidNext)
              IN  /\ loads' = [loads EXCEPT ![i] = [l EXCEPT
                                   !.pc = "done", !.settingsResult = out,
                                   !.committed = Some(typed)]]
                  /\ settings' = SetState(settings, Some(typed))
                  /\ uuidNext' = processedLinks(out.data, uuidNext).next
                  /\ DocumentEffects(out.data, typed)
                  /\ UNCHANGED error
    /\ loading' = SetState(loading, FALSE)
    /\ UNCHANGED <<username, profile, mounted, navigated>>
    /\ UNCHANGED harnessVars

\* the state after construction: the useState initial values of lines 98-101
PageInit(u) ==
    /\ username = u
    /\ profile = Null
    /\ settings = Null
    /\ loading = TRUE
    /\ error = Null
    /\ mounted = TRUE
    /\ loads = <<>>
    /\ darkClass = FALSE
    /\ fontCurrent = Null
    /\ navigated = Null
    /\ uuidNext = 0

HarnessIdle ==
    /\ fpc = "idle"
    /\ arg = Null
    /\ res = Null

Init ==
    /\ \E u \in {Null} \cup {Some(n) : n \in Usernames} : PageInit(u)
    /\ HarnessIdle

Next ==
    \/ MountEffect
    \/ \E u \in Usernames : ChangeUsername(u)
    \/ Unmount
    \/ ClickReturnHome
    \/ \E i \in {j \in 1..Len(loads) : loads[j].pc = "awaitProfile"} :
           \E out \in ProfileOutcomes(loads[i].username.v) : ProfileResolved(i, out)
    \/ \E i \in {j \in 1..Len(loads) : loads[j].pc = "awaitSettings"} :
           \E out \in SettingsOutcomes(loads[i].settingsKey.v) : SettingsResolved(i, out)

Spec == Init /\ [][Next]_vars

-----------------------------------------------------------------------------
(* formatUrl on its own, and one page view over the stored settings rows *)

\* inputs of formatUrl: a scheme-like head followed by a short tail
UrlHeads ==
    {"", "h", "ht", "htt", "http", "http:", "http:/", "http://", "https", "https:",
     "https:/", "https://", "/", "//", "HTTP://", "Https://", "ftp://", "example.com",
     " http://", "mailto:"}

UrlTailChars == {"/", "x"}

RECURSIVE StringsUpTo(_)
StringsUpTo(n) ==
    IF n = 0 THEN {""}
    ELSE StringsUpTo(n - 1) \cup
         {t \o c : t \in {u \in StringsUpTo(n - 1) : Len(u) = n - 1}, c \in UrlTailChars}

UrlInputs == {h \o t : h \in UrlHeads, t \in StringsUpTo(MaxTail)}

\* stored link entries: a null entry, a bare url, a complete entry, an entry with
\* an empty title
RawLinks ==
    { EmptyRec,
      [url |-> "example.com"],
      [id |-> "l1", title |-> "Site", url |-> "https://a.b", icon |-> "globe",
       display |-> "title", photo_url |-> "//cdn/p.png"],
      [id |-> "l2", title |-> "", url |-> "//cdn.x"] }

LinkArrays == UNION {[1..k -> RawLinks] : k \in 0..MaxLinks}

Optional(f, values) == {EmptyRec} \cup {f :> v : v \in values}

\* stored settings rows: every column may be null
SettingsRows ==
    { a @@ b @@ c @@ d @@ e @@ f :
        a \in Optional("theme_id", {"", "ocean", "retro", "constructor"}),
        b \in Optional("is_dark_mode", BOOLEAN),
        c \in Optional("font_style", {"serif"}),
        d \in Optional("layout_type", {"bento"}),
        e \in Optional("background_style",
                {"", "not json", "null", "5",
                 "{\"id\":\"none\",\"url\":\"\"}",
                 "{\"id\":\"custom\",\"url\":\"https://img\"}",
                 "{\"id\":\"custom\",\"url\":\"\"}",
                 "{\"id\":\"none\",\"url\":\"https://img\"}",
                 "{\"url\":\"https://img\"}"}),
        f \in Optional("links", {[t |-> "string", v |-> "[]"]}
                                \cup {[t |-> "array", v |-> ls] : ls \in LinkArrays}) }

FormatInit ==
    /\ PageInit(Some("alice"))
    /\ fpc = "url"
    /\ arg \in UrlInputs
    /\ res = Null

\* lines 79-94 applied to the input
ApplyFormatUrl ==
    /\ fpc = "url"
    /\ res' = Some(formatUrl(arg))
    /\ fpc' = "formatted"
    /\ UNCHANGED arg
    /\ UNCHANGED pageVars

SpecFormat == FormatInit /\ [][ApplyFormatUrl]_vars

\* one page view over the stored settings rows: the profile exists, the
\* settings lookup answers any row of SettingsRows, and the success view renders
ViewInit ==
    /\ PageInit(Some("alice"))
    /\ HarnessIdle

\* lines 284-305: the success view is rendered from the settings of the page
RenderSuccess ==
    /\ mounted
    /\ PageState = "success"
    /\ fpc = "idle"
    /\ res' = Some(RenderView(settings.v))
    /\ fpc' = "rendered"
    /\ UNCHANGED arg
    /\ UNCHANGED pageVars

ViewNext ==
    \/ MountEffect
    \/ \E i \in {j \in 1..Len(loads) : loads[j].pc = "awaitProfile"} :
           ProfileResolved(i, Row(ProfileRow(loads[i].username.v)))
    \/ \E i \in {j \in 1..Len(loads) : loads[j].pc = "awaitSettings"} :
           \E r \in SettingsRows :
               SettingsResolved(i, Row([id |-> loads[i].settingsKey.v] @@ r))
    \/ RenderSuccess

SpecView == ViewInit /\ [][ViewNext]_vars

-----------------------------------------------------------------------------
(* Visits to the route table, App.tsx 66-83.  Here arg is the visit (the     *)
(* location, whether a session is active, and the path a redirect came from) *)
(* and res is the page that rendered.                                        *)

Segments ==
    {"auth", "how-to-use", "dashboard", "edit-profile", "appearance", "edit-links",
     "settings", "alice", "404", "Dashboard", "AUTH"}

Paths == UNION {[1..k -> Segments] : k \in 0..MaxSegments}

\* <ProtectedRoute />: the outlet with an active session, else a redirect to /auth
ProtectedRoute(session) ==
    IF session THEN [t |-> "outlet"] ELSE [t |-> "navigate", to |-> <<"auth">>]

RouteInit ==
    /\ PageInit(Some("alice"))
    /\ fpc = "visit"
    /\ arg \in {[path |-> p, session |-> b, from |-> Null] : p \in Paths, b \in BOOLEAN}
    /\ res = Null

\* lines 66-83: <Routes> matches the location; a route under line 74 renders
\* through the guard
RenderRoute ==
    /\ fpc = "visit"
    /\ LET m == MatchRoute(arg.path)
           g == ProtectedRoute(arg.session)
       IN  IF m.guarded /\ g.t = "navigate"
           THEN /\ fpc' = "redirect"
                /\ res' = Some([to |-> g.to])
           ELSE /\ fpc' = "rendered"
                /\ res' = Some([element |-> m.element])
    /\ UNCHANGED arg
    /\ UNCHANGED pageVars

\* the redirect of the guard replaces the location
FollowRedirect ==
    /\ fpc = "redirect"
    /\ arg' = [path |-> res.v.to, session |-> arg.session, from |-> Some(arg.path)]
    /\ res' = Null
    /\ fpc' = "visit"
    /\ UNCHANGED pageVars

RouteNext == RenderRoute \/ FollowRedirect

SpecRoutes == RouteInit /\ [][RouteNext]_vars

-----------------------------------------------------------------------------
(* Claims about the page *)

\* some loadProfile invocation reaches its finally block in this step
SomeLoadResolves ==
    \/ Len(loads') > Len(loads) /\ loads'[Len(loads')].pc = "done"
    \/ \E i \in 1..Len(loads) : loads[i].pc # "done" /\ loads'[i].pc = "done"

\* C1: the page starts in loading; it is always in exactly one of loading,
\* success and error; success and error are entered only from loading; and
\* loading is left only in a step in which a loader invocation resolves.
C1_PageStateMachine ==
    /\ PageState = "loading"
    /\ [][ /\ PageState' \in {"loading", "success", "error"}
           /\ (PageState' = "success") => (IsNull(error') /\ ~IsNull(profile') /\ ~IsNull(settings'))
           /\ (PageState' # PageState /\ PageState' # "loading") => PageState = "loading"
           /\ (PageState = "loading" /\ PageState' # "loading") => SomeLoadResolves ]_vars

\* C2: within one invocation each lookup is issued at most once; the settings
\* lookup is issued only after the profile lookup answered a row without error,
\* keyed by that row's id; a profile error or a missing profile row issues no
\* settings lookup.
C2_LookupsSequentialOnce ==
    \A i \in 1..Len(loads) :
        LET l == loads[i] IN
        /\ l.profileIssued <= 1
        /\ l.settingsIssued <= 1
        /\ l.settingsIssued = 1 =>
               /\ l.profileIssued = 1
               /\ l.profileResult.t = "row"
               /\ l.settingsKey = Some(l.profileResult.data.id)
        /\ l.profileResult.t \in {"error", "none", "throw"} =>
               /\ l.settingsIssued = 0
               /\ IsNull(l.settingsResult)
               /\ l.pc = "done"
        /\ ~IsNull(l.settingsResult) => l.settingsIssued = 1

C2_Witness ==
    \E i, j \in 1..Len(loads) :
        /\ loads[i].pc = "done" /\ loads[i].settingsIssued = 1
        /\ loads[i].settingsResult.t = "row"
        /\ loads[j].pc = "done" /\ loads[j].profileResult.t = "none"

\* C3: an invocation without a username issues no lookup, fires no toast, and
\* navigates to a target that the route table resolves to the not-found page.
C3_AbsentUsernameRedirectsToNotFound ==
    \A i \in 1..Len(loads) :
        LET l == loads[i] IN
        IsNull(l.username) =>
            /\ l.pc = "done"
            /\ l.profileIssued = 0
            /\ l.settingsIssued = 0
            /\ l.toasts = <<>>
            /\ ~IsNull(l.navigated)
            /\ MatchRoute(l.navigated.v).element = "NotFound"

\* the invocation l ended on a query error of one of its lookups
EndedOnQueryError(l) ==
    l.pc = "done" /\ (l.profileResult.t = "error" \/ l.settingsResult.t = "error")

\* the invocation l ended because the profile has no settings row
EndedOnSettingsMissing(l) ==
    l.pc = "done" /\ l.profileResult.t = "row" /\ l.settingsResult.t = "none"

\* C4: an invocation whose settings lookup finds no row ends the page in the
\* error state, with a message no not-found or query-error ending uses, and
\* fires no toast; an invocation that ends on a query error always fires one.
C4_SettingsMissingIsSilentAndDistinct ==
    /\ [](\A i \in 1..Len(loads) :
            LET l == loads[i] IN
            /\ EndedOnSettingsMissing(l) =>
                   /\ ~IsNull(l.errorSet)
                   /\ l.toasts = <<>>
                   /\ \A j \in 1..Len(loads) :
                          (EndedOnQueryError(loads[j]) \/
                           (loads[j].pc = "done" /\ loads[j].profileResult.t = "none"))
                          => loads[j].errorSet # l.errorSet
            /\ EndedOnQueryError(l) => l.toasts # <<>>)
    /\ [][ \A i \in 1..Len(loads) :
             (mounted /\ loads[i].pc = "awaitSettings" /\ EndedOnSettingsMissing(loads'[i]))
             => (PageState' = "error" /\ error' = loads'[i].errorSet) ]_vars

C4_Witness ==
    \E i, j \in 1..Len(loads) :
        /\ EndedOnSettingsMissing(loads[i])
        /\ EndedOnQueryError(loads[j])
        /\ mounted
        /\ PageState = "error"

\* sub occurs in s
Contains(s, sub) ==
    \E k \in 0..(Len(s) - Len(sub)) : SubSeq(s, k + 1, k + Len(sub)) = sub

\* the message the backend reported to an invocation that ended on a query error
BackendMessage(l) ==
    IF l.profileResult.t = "error" THEN l.profileResult.message
    ELSE l.settingsResult.message

\* C5: an invocation that ends on a query error of either lookup sets the
\* error state and fires a toast that carries the backend's own message.
C5_QueryErrorMessageSurfaced ==
    \A i \in 1..Len(loads) :
        LET l == loads[i] IN
        EndedOnQueryError(l) =>
            /\ ~IsNull(l.errorSet)
            /\ \E k \in 1..Len(l.toasts) :
                   Contains(l.toasts[k].description, BackendMessage(l))

\* the stored background_style of the row is a string that JSON.parse rejects
ParseFails(row) ==
    TruthyStr(row, "background_style") /\ ~JSONparse(row.background_style).ok

\* the invocation l got both rows, and parsing the stored background_style threw
EndedOnParseFailure(l) ==
    /\ l.pc = "done"
    /\ l.profileResult.t = "row"
    /\ l.settingsResult.t = "row"
    /\ ParseFails(l.settingsResult.data)

\* C6: an invocation whose background_style fails to parse sets no error, fires
\* no toast and resolves settings without a background override, which render
\* with a theme background; its last step hands these settings to the page,
\* ends loading and leaves the error as it was, so that a view with this one
\* invocation is in the success state.
C6_ParseFailureIsNotFatal ==
    /\ [](\A i \in 1..Len(loads) :
            LET l == loads[i] IN
            EndedOnParseFailure(l) =>
                /\ IsNull(l.errorSet)
                /\ l.toasts = <<>>
                /\ ~IsNull(l.committed)
                /\ "background_style" \notin DOMAIN l.committed.v
                /\ IsNull(RenderView(l.committed.v).backgroundImage)
                /\ RenderView(l.committed.v).overlayClass = ""
                /\ RenderView(l.committed.v).backgroundClass \in
                       {THEMES[k].background : k \in DOMAIN THEMES})
    /\ [][ \A i \in 1..Len(loads) :
             (mounted /\ loads[i].pc = "awaitSettings" /\ EndedOnParseFailure(loads'[i]))
             => /\ settings' = loads'[i].committed
                /\ loading' = FALSE
                /\ error' = error
                /\ (Len(loads) = 1 => PageState' = "success") ]_vars

C6_Witness ==
    /\ Len(loads) = 1
    /\ EndedOnParseFailure(loads[1])
    /\ mounted
    /\ PageState = "success"

\* C7: once the view is torn down, the dark class and the font property are
\* absent from the document, whatever the order of unmount and completions.
C7_DocumentEffectsScopedToView ==
    ~mounted => (darkClass = FALSE /\ IsNull(fontCurrent))

-----------------------------------------------------------------------------
(* Claims about the pure parts *)

\* C8: formatUrl maps "" to "", returns a string that starts with "http://" or
\* "https://" unchanged, prefixes "https:" to a string that starts with "//",
\* and prefixes "https://" to every other non-empty string.
C8_FormatUrlFourCases ==
    fpc = "formatted" =>
        LET s == arg
            r == res.v
            hasScheme == \/ (Len(s) >= 7 /\ SubSeq(s, 1, 7) = "http://")
                         \/ (Len(s) >= 8 /\ SubSeq(s, 1, 8) = "https://")
            relative  == Len(s) >= 2 /\ SubSeq(s, 1, 2) = "//"
        IN  /\ s = "" => r = ""
            /\ hasScheme => r = s
            /\ relative => r = "https:" \o s
            /\ (s # "" /\ ~hasScheme /\ ~relative) => r = "https://" \o s

C8_Witness ==
    /\ fpc = "formatted"
    /\ arg = "//x"
    /\ res = Some("https://x")

\* the ids the stored links of the row carry
StoredIds(row) ==
    IF "links" \in DOMAIN row /\ row.links.t = "array"
    THEN {row.links.v[k].id : k \in {j \in 1..Len(row.links.v) : "id" \in DOMAIN row.links.v[j]}}
    ELSE {}

\* C9: in the settings a successful invocation resolves, every field missing
\* from the stored row takes its default (theme_id "elegant", is_dark_mode
\* false, font_style "sans", layout_type "links"); the resolved links keep the
\* stored count and order; in each link a missing field takes its default (a
\* fresh id, title "", icon "link", display "both", photo_url ""), and the url
\* is formatUrl of the stored url.
C9_DefaultsApplied ==
    \A i \in 1..Len(loads) :
        (loads[i].pc = "done" /\ loads[i].settingsResult.t = "row") =>
        LET row == loads[i].settingsResult.data
            ts  == loads[i].committed.v
            raw == IF "links" \in DOMAIN row /\ row.links.t = "array" THEN row.links.v ELSE <<>>
        IN  /\ ts.theme_id = (IF "theme_id" \in DOMAIN row /\ row.theme_id # "" THEN row.theme_id ELSE "elegant")
            /\ ts.is_dark_mode = (IF "is_dark_mode" \in DOMAIN row THEN row.is_dark_mode ELSE FALSE)
            /\ ts.font_style = (IF "font_style" \in DOMAIN row THEN row.font_style ELSE "sans")
            /\ ts.layout_type = (IF "layout_type" \in DOMAIN row THEN row.layout_type ELSE "links")
            /\ Len(ts.links) = Len(raw)
            /\ \A k \in 1..Len(raw) :
                   LET r == raw[k]
                       l == ts.links[k]
                   IN  /\ DOMAIN l = {"id", "title", "url", "icon", "display", "photo_url"}
                       /\ "id" \in DOMAIN r => l.id = r.id
                       /\ "id" \notin DOMAIN r =>
                              /\ l.id # ""
                              /\ l.id \notin StoredIds(row)
                              /\ \A m \in 1..Len(raw) : m # k => ts.links[m].id # l.id
                       /\ l.title = (IF "title" \in DOMAIN r THEN r.title ELSE "")
                       /\ l.url = (IF "url" \in DOMAIN r THEN formatUrl(r.url) ELSE "")
                       /\ l.icon = (IF "icon" \in DOMAIN r THEN r.icon ELSE "link")
                       /\ l.display = (IF "display" \in DOMAIN r THEN r.display ELSE "both")
                       /\ l.photo_url = (IF "photo_url" \in DOMAIN r THEN r.photo_url ELSE "")

C9_Witness ==
    /\ Len(loads) = 1
    /\ loads[1].pc = "done"
    /\ loads[1].settingsResult =
           Row([id |-> "id-alice", links |-> [t |-> "array", v |-> <<[url |-> "example.com"]>>]])
    /\ PageState = "success"
    /\ settings =
           Some([ links |-> << [id |-> "uuid-0", title |-> "", url |-> "https://example.com",
                                icon |-> "link", display |-> "both", photo_url |-> ""] >>,
                  theme_id |-> "elegant", is_dark_mode |-> FALSE, font_style |-> "sans",
                  layout_type |-> "links" ])

\* C10: in the success state the image background, the overlay and the
\* text-shadow class are applied together, exactly when a background override
\* is present with an id other than "none" and a non-empty url; otherwise none
\* is applied and the page background is the registry entry of the theme id,
\* or the "elegant" entry when the id is not in the registry.
C10_BackgroundPrecedence ==
    fpc = "rendered" =>
        LET s == settings.v
            v == res.v
            override == /\ "background_style" \in DOMAIN s
                        /\ s.background_style.t = "obj"
                        /\ ~("id" \in DOMAIN s.background_style.o /\ s.background_style.o.id = "none")
                        /\ "url" \in DOMAIN s.background_style.o
                        /\ s.background_style.o.url # ""
            registry == {"elegant", "nature", "ocean", "sunset"}
        IN  /\ PageState = "success"
            /\ ~IsNull(v.backgroundImage) <=> override
            /\ v.overlayClass # "" <=> override
            /\ v.textShadowClass # "" <=> override
            /\ override => v.backgroundClass = ""
            /\ ~override =>
                   v.backgroundClass = (IF s.theme_id \in registry
                                        THEN THEMES[s.theme_id].background
                                        ELSE THEMES["elegant"].background)

-----------------------------------------------------------------------------
(* Claims about the route table *)

\* the page the spec places at a path, and whether it is session-gated
ExpectedPage(path) ==
    LET seg(i) == LowerCase(path[i])
    IN  CASE path = <<>> -> [element |-> "Landing", gated |-> FALSE]
          [] Len(path) = 1 /\ seg(1) = "auth" -> [element |-> "Auth", gated |-> FALSE]
          [] Len(path) = 1 /\ seg(1) = "how-to-use" -> [element |-> "HowToUse", gated |-> FALSE]
          [] Len(path) = 1 /\ seg(1) = "dashboard" -> [element |-> "Index", gated |-> TRUE]
          [] Len(path) = 1 /\ seg(1) = "appearance" -> [element |-> "ProfileAppearance", gated |-> TRUE]
          [] Len(path) = 1 /\ seg(1) = "edit-links" -> [element |-> "LinkEditorPage", gated |-> TRUE]
          [] Len(path) = 1 /\ seg(1) = "settings" -> [element |-> "SettingsPage", gated |-> TRUE]
          [] Len(path) = 2 /\ seg(1) = "edit-profile" -> [element |-> "ProfileEditor", gated |-> TRUE]
          [] Len(path) = 1 -> [element |-> "UserProfile", gated |-> FALSE]
          [] OTHER -> [element |-> "NotFound", gated |-> FALSE]

\* C11: the pages at /dashboard, /edit-profile/:username, /appearance,
\* /edit-links and /settings render only with an active session, and a visit
\* without one is redirected to /auth with no page rendered; the pages at /,
\* /auth, /how-to-use and /:username render with or without a session; every
\* other path renders the not-found page.
C11_RouteTable ==
    LET e == ExpectedPage(arg.path) IN
    /\ fpc = "rendered" =>
           /\ res.v.element = e.element
           /\ e.gated => arg.session
    /\ fpc = "redirect" =>
           /\ e.gated
           /\ ~arg.session
           /\ res.v.to = <<"auth">>
    /\ (fpc \in {"rendered", "redirect"} /\ e.gated /\ ~arg.session) => fpc = "redirect"
    /\ (fpc \in {"rendered", "redirect"} /\ (~e.gated \/ arg.session)) => fpc = "rendered"
    /\ ~IsNull(arg.from) => arg.path = <<"auth">>
    /\ (fpc = "rendered" /\ ~IsNull(arg.from)) => res.v.element = "Auth"

C11_Witness ==
    /\ fpc = "rendered"
    /\ arg = [path |-> <<"auth">>, session |-> FALSE, from |-> Some(<<"settings">>)]
    /\ res = Some([element |-> "Auth"])

-----------------------------------------------------------------------------
(* Claims about overlapping invocations *)

\* the invocation for the currently requested username: the last one started
CurrentLoad == loads[Len(loads)]

\* C12: whatever the interleaving of load starts and lookup completions, a
\* page in the success state shows the profile of the currently requested
\* username with the settings looked up by that profile's id, and the page is
\* in the loading state for as long as the invocation for the currently
\* requested username is in flight.
C12_LoadsDoNotInterfere ==
    (mounted /\ loads # <<>>) =>
        /\ PageState = "success" =>
               /\ ~IsNull(username)
               /\ profile.v.username = username.v
               /\ \E i \in 1..Len(loads) :
                      /\ loads[i].committed = settings
                      /\ loads[i].settingsKey = Some(profile.v.id)
        /\ CurrentLoad.pc # "done" => PageState = "loading"

====
